---- MODULE Spec2Model ----
(***************************************************************************)
(* Event lifecycle handlers of the Run backend (Azure Functions over Azure *)
(* Table Storage).  Every handler is a sequence of store calls; a step of  *)
(* the model is one store call of one handler invocation together with the *)
(* local computation that follows it, so that concurrent invocations       *)
(* interleave exactly at the store calls.                                  *)
(*                                                                         *)
(* Tables: Events (PartitionKey "Event"), RunnersInEvent, ReadyUsers and   *)
(* RunnerPositions (PartitionKey = eventId), Users (PartitionKey "User").  *)
(***************************************************************************)
EXTENDS Integers, FiniteSets, Sequences, TLC

\* ------------------------------------------------------------------ bounds
\* The clock is strictly increasing: every datetime.utcnow() the model keeps
\* returns a fresh value.  Steps that read it are disabled at MaxClock.
MaxClock == 2

\* The query of the latest positions is run on tables of at most MaxRows rows.
MaxRows == 3

\* ------------------------------------------------------------ input domains
Users    == {"H", "A", "B"}          \* rows of the Users table
Missing  == ""                       \* a field that is absent from the body
UserIds  == Users \cup {"X"}         \* "X" is no row of the Users table
EventIds == {"E1"}
Procs    == {1, 2}                   \* concurrent handler invocations
RaceUsers == {"H", "A"}              \* the users of the concurrent requests

\* The usernames and passwords of the register and login requests, and the
\* salts bcrypt.gensalt() can return.
Names     == {"A", "X"}
Passwords == {"short", "password1", "password2"}
Salts     == {1, 2}

\* bcrypt.hashpw(password, salt): the hash carries its salt.
HashPw(password, salt) == <<salt, password>>
\* bcrypt.checkpw(password, hash): the password hashed with the salt of hash.
CheckPw(password, hash) == HashPw(password, hash[1]) = hash

\* A numeric body field: absent (body.get gives None) or present with a value.
Absent  == [present |-> FALSE, val |-> 0]
Fields  == {Absent, [present |-> TRUE, val |-> 0], [present |-> TRUE, val |-> 1]}
\* Python truthiness of body.get(<field>): None and 0 are falsy.
Truthy(f) == f.present /\ f.val # 0
\* The samples a runner's client takes, named by the time the client took them;
\* the payload of a request (latitude ... elapsedTime) is that of one sample.
Samples == {1, 2}

\* -------------------------------------------------------------------- state
VARIABLES
    events,      \* Events table: eventId -> entity (exists = FALSE: no row)
    runners,     \* RunnersInEvent table: set of <<eventId, userId>>
    readyUsers,  \* ReadyUsers table: set of <<eventId, userId>>
    positions,   \* RunnerPositions table: set of <<eventId, userId, timestamp,
                 \* sample>>, sample standing for the payload columns of the row
    clock,       \* last value datetime.utcnow() returned
    accounts,    \* Users table: set of <<PartitionKey, RowKey, passwordHash>>
    inv,         \* proc -> the invocation it runs (locals, position, response)
    prev         \* the sequential client's memory: its previous response and
                 \* the tables as they were when that response arrived

vars == <<events, runners, readyUsers, positions, clock, accounts, inv, prev>>
store == <<events, runners, readyUsers, positions, clock, accounts>>

NoEntity == [exists |-> FALSE, status |-> "none", trainerId |-> "none", startedAt |-> 0]

\* An idle invocation slot; every invocation record has these fields.  token
\* is what verify_token makes of the request's Authorization header; the steps
\* of a handler under @require_auth are those of a request whose token is
\* valid, the others end in RequireAuth below.
Idle == [op |-> "none", pc |-> "idle", eventId |-> Missing, userId |-> Missing,
         requester |-> Missing, caller |-> Missing, lat |-> Absent, lon |-> Absent, ts |-> Absent,
         evt |-> NoEntity, eventDeleted |-> FALSE,
         readyIds |-> {}, todo |-> {}, removed |-> {}, faulted |-> FALSE,
         users |-> {}, sample |-> 0, now |-> 0, window |-> 0, latest |-> {},
         token |-> "valid", listed |-> {},
         password |-> Missing, salt |-> 0, issued |-> Missing,
         code |-> 0, msg |-> "none", bcast |-> "none"]

\* func.HttpResponse(..., status_code = c): the invocation ends.
Respond(r, c, m) == [r EXCEPT !.pc = "done", !.code = c, !.msg = m]
\* signalrMessages.set(...) followed by the response.
RespondWith(r, c, m, target) == [Respond(r, c, m) EXCEPT !.bcast = target]

RunnersOf(e) == {u \in UserIds : <<e, u>> \in runners}
ReadyOf(e)   == {u \in UserIds : <<e, u>> \in readyUsers}

\* The rows the tables can hold.
TypeOK ==
    /\ \A e \in EventIds :
          /\ events[e].exists \in BOOLEAN
          /\ events[e].status \in {"none", "open", "ready"}
          /\ events[e].startedAt \in Nat
    /\ runners \subseteq EventIds \X UserIds
    /\ readyUsers \subseteq EventIds \X UserIds
    /\ positions \subseteq EventIds \X UserIds \X Nat \X Samples
    /\ clock \in Nat
    /\ accounts \subseteq {"User", "user"} \X UserIds \X (Salts \X Passwords)
    /\ \A p \in Procs : inv[p].code \in {0, 200, 201, 400, 401, 403, 404, 409, 500}

\* The Events table holds one event, open and hosted by H, as the entity of
\* createEvent lines 52-69 describes it; the table is durable storage and the
\* row is taken as stored (CreateEvent below cannot insert one).  No user has
\* joined yet and nobody is marked ready.  The Users table holds a row for each
\* of Users; only register writes the table, so in the specifications without
\* register the rows of partition "User" are those of Users throughout.
Init ==
    /\ events = [e \in EventIds |->
                    [exists |-> TRUE, status |-> "open", trainerId |-> "H", startedAt |-> 0]]
    /\ runners = {}
    /\ readyUsers = {}
    /\ positions = {}
    /\ clock = 0
    /\ accounts = {<<"User", u, HashPw("password1", 1)>> : u \in Users}
    /\ inv = [p \in Procs |-> Idle]
    /\ prev = [op |-> "none", userId |-> Missing, code |-> 0,
               events |-> [e \in EventIds |->
                    [exists |-> TRUE, status |-> "open", trainerId |-> "H", startedAt |-> 0]],
               runners |-> {}, readyUsers |-> {}, before |-> {}, password |-> Missing]

\* ------------------------------------------------------------- require_auth
\* A request without an Authorization header of the form "Bearer <token>", or
\* with a token that jwt.decode refuses (bad signature, expired).
BadTokens == {"absent", "invalid"}

\* The handlers of the model that are defined under @require_auth.  createEvent
\* and getEventRegisteredUsers are defined without the decorator.
Decorated == {"joinEvent", "leaveEvent", "setEventReady", "markUserReady", "startEvent",
              "deleteEvent", "updateRunnerPosition", "getEventRunnersPositions"}

\* shared/auth.py lines 25-47: the wrapper answers 401 without calling the
\* handler when there is no token (line 29) or verify_token raises (line 41).
RequireAuth(p) ==
    /\ inv[p] = Idle
    /\ \E op \in Decorated, t \in BadTokens :
          inv' = [inv EXCEPT ![p] =
                    Respond([Idle EXCEPT !.op = op, !.token = t], 401,
                            IF t = "absent" THEN "No authorization token provided"
                                            ELSE "Invalid token")]
    /\ UNCHANGED <<store, prev>>

\* ---------------------------------------------------------------- joinEvent
\* A mutant of JoinStatusOk: the status of the event is not checked.
JoinStatusAny(evt) == TRUE

\* Line 65: the event must be in status open.
JoinStatusOk(evt) == evt.status = "open"

\* Lines 18-71: validation, Users lookup, Events lookup, status check.  The
\* Users table is never written by these handlers, so its lookup commutes with
\* every other step and is taken together with the Events lookup.
JoinEventCheck(p, U) ==
    /\ inv[p] = Idle
    /\ \E e \in EventIds, u \in U :
          LET r == [Idle EXCEPT !.op = "joinEvent", !.eventId = e, !.userId = u] IN
          inv' = [inv EXCEPT ![p] =
                    IF u = Missing THEN Respond(r, 400, "missing eventId or userId")
                    ELSE IF u \notin Users THEN Respond(r, 404, "user not found")
                    ELSE IF ~events[e].exists THEN Respond(r, 404, "event not found")
                    ELSE IF ~JoinStatusOk(events[e]) THEN Respond(r, 409, "event is not open")
                    ELSE [r EXCEPT !.pc = "create", !.evt = events[e]]]
    /\ UNCHANGED <<store, prev>>

\* A mutant of JoinExistsResponse: the existing row is reported as a conflict.
JoinExistsConflict(r) == Respond(r, 409, "user already joined")

\* A mutant of JoinExistsResponse: ResourceExistsError is not caught at line 84
\* and reaches the handler's except.
JoinExistsUncaught(r) == Respond(r, 500, "ResourceExistsError")

\* A mutant of JoinExistsResponse: the updateEvent message is set for a user
\* who had joined already.
JoinExistsAnnounced(r) == RespondWith(r, 200, "user already joined", "updateEvent")

\* Lines 81-90: what the handler answers when create_entity raises
\* ResourceExistsError.
JoinExistsResponse(r) == Respond(r, 200, "user already joined")

\* Lines 73-105: the conditional insert and the response.
JoinEventCreate(p) ==
    /\ inv[p].op = "joinEvent" /\ inv[p].pc = "create"
    /\ LET row == <<inv[p].eventId, inv[p].userId>> IN
       IF row \in runners
       THEN /\ inv' = [inv EXCEPT ![p] = JoinExistsResponse(inv[p])]
            /\ UNCHANGED runners
       ELSE /\ runners' = runners \cup {row}
            /\ inv' = [inv EXCEPT ![p] =
                          RespondWith(inv[p], 201, "user joined event", "updateEvent")]
    /\ UNCHANGED <<events, readyUsers, positions, clock, accounts, prev>>

\* ------------------------------------------------------------ the Events table
\* A mutant of UpdateEntity: an upsert, which inserts the row when it is gone.
UpsertEntity(tbl, key, entity) == [ok |-> TRUE, tbl |-> [tbl EXCEPT ![key] = entity]]

\* events_tbl.update_entity(entity = ..., mode = UpdateMode.REPLACE): replaces the
\* stored row by the entity handed in, whatever the row holds now (no etag is
\* checked); raises ResourceNotFoundError when the row does not exist.
UpdateEntity(tbl, key, entity) ==
    IF tbl[key].exists
    THEN [ok |-> TRUE, tbl |-> [tbl EXCEPT ![key] = entity]]
    ELSE [ok |-> FALSE, tbl |-> tbl]

\* ------------------------------------------------------------ setEventReady
\* Lines 19-52: Events lookup and the host check against the token's username.
SetEventReadyGet(p, U) ==
    /\ inv[p] = Idle
    /\ \E e \in EventIds, caller \in U \cap Users :
          LET r == [Idle EXCEPT !.op = "setEventReady", !.eventId = e, !.requester = caller] IN
          inv' = [inv EXCEPT ![p] =
                    IF ~events[e].exists THEN Respond(r, 404, "event not found")
                    ELSE IF events[e].trainerId # caller
                         THEN Respond(r, 403, "only the host can set event to ready")
                    ELSE [r EXCEPT !.pc = "update", !.evt = events[e]]]
    /\ UNCHANGED <<store, prev>>

\* Lines 54-74: the entity read at line 36 is written back with status ready.
\* ResourceNotFoundError from update_entity reaches the handler's except: 500.
SetEventReadyUpdate(p) ==
    /\ inv[p].op = "setEventReady" /\ inv[p].pc = "update"
    /\ LET upd == UpdateEntity(events, inv[p].eventId, [inv[p].evt EXCEPT !.status = "ready"]) IN
       /\ events' = upd.tbl
       /\ inv' = [inv EXCEPT ![p] =
                    IF upd.ok
                    THEN RespondWith(inv[p], 200, "event set to ready", "eventStatusChanged")
                    ELSE Respond(inv[p], 500, "ResourceNotFoundError")]
    /\ UNCHANGED <<runners, readyUsers, positions, clock, accounts, prev>>

\* --------------------------------------------------------------- startEvent
\* A mutant of StartStatusOk: the status of the event is not checked.
StartStatusAny(evt) == TRUE

\* Line 37: the event must be in status ready.
StartStatusOk(evt) == evt.status = "ready"

\* A mutant of ReadyUserIds: the host is not added to the ready users.
ReadyUserIdsNoHost(marked, userId) == marked

\* Lines 62-66: the users holding a ReadyMark, and the caller (the host).
ReadyUserIds(marked, userId) == marked \cup {userId}

\* A mutant of StartRefused: the eventStarted message is set before the checks.
StartRefusedAnnounced(r, c, m) == RespondWith(r, c, m, "eventStarted")

\* Lines 38-56: the error responses of the checks return before
\* signalrMessages.set of line 100.
StartRefused(r, c, m) == Respond(r, c, m)

\* Lines 15-56: validation, Events lookup, status check, host check against
\* the userId of the body.  require_auth puts the payload of the token, that of
\* one of T, into req.user, which main never reads.
StartEventGet(p, U, T) ==
    /\ inv[p] = Idle
    /\ \E e \in EventIds, u \in U, caller \in T :
          LET r == [Idle EXCEPT !.op = "startEvent", !.eventId = e, !.userId = u,
                                !.caller = caller] IN
          inv' = [inv EXCEPT ![p] =
                    IF u = Missing THEN Respond(r, 400, "missing eventId or userId")
                    ELSE IF ~events[e].exists THEN StartRefused(r, 404, "event not found")
                    ELSE IF ~StartStatusOk(events[e])
                         THEN StartRefused(r, 409, "event is not in ready state")
                    ELSE IF events[e].trainerId # u
                         THEN StartRefused(r, 403, "only the host can start the event")
                    ELSE [r EXCEPT !.pc = "queryReady", !.evt = events[e]]]
    /\ UNCHANGED <<store, prev>>

\* Lines 58-66: the ReadyUsers query.
StartEventQueryReady(p) ==
    /\ inv[p].op = "startEvent" /\ inv[p].pc = "queryReady"
    /\ inv' = [inv EXCEPT ![p].pc = "queryRunners",
                          ![p].readyIds = ReadyUserIds(ReadyOf(inv[p].eventId), inv[p].userId)]
    /\ UNCHANGED <<store, prev>>

\* A mutant of UsersToRemove: the loop does not look at ready_user_ids.
UsersToRemoveAll(registered, readyIds) == registered

\* Lines 76-78: the registered users the loop body deletes, those who are not
\* in ready_user_ids.
UsersToRemove(registered, readyIds) == registered \ readyIds

\* Lines 68-77: the RunnersInEvent query.  The loop body does nothing for a
\* registered user who is in ready_user_ids, so todo holds the others.
StartEventQueryRunners(p) ==
    /\ inv[p].op = "startEvent" /\ inv[p].pc = "queryRunners"
    /\ inv' = [inv EXCEPT ![p].pc = "prune",
                          ![p].todo = UsersToRemove(RunnersOf(inv[p].eventId), inv[p].readyIds)]
    /\ UNCHANGED <<store, prev>>

\* Lines 76-85: one delete of the prune loop.  The row is deleted and the user
\* listed as removed; or the row is gone already, which delete_entity reports
\* by ResourceNotFoundError (line 82: not listed) or passes over in silence
\* (listed), depending on the azure-data-tables release; or the store fails
\* the delete with another error (line 84: logged, the loop goes on).
StartEventPrune(p) ==
    /\ inv[p].op = "startEvent" /\ inv[p].pc = "prune" /\ inv[p].todo # {}
    /\ \E u \in inv[p].todo :
          LET row == <<inv[p].eventId, u>>
              next == [inv[p] EXCEPT !.todo = @ \ {u}] IN
          \/ /\ runners' = runners \ {row}
             /\ inv' = [inv EXCEPT ![p] = [next EXCEPT !.removed = @ \cup {u}]]
          \/ /\ row \notin runners
             /\ UNCHANGED runners
             /\ inv' = [inv EXCEPT ![p] = next]
          \/ /\ row \in runners
             /\ UNCHANGED runners
             /\ inv' = [inv EXCEPT ![p] = [next EXCEPT !.faulted = TRUE]]
    /\ UNCHANGED <<events, readyUsers, positions, clock, accounts, prev>>

\* Lines 87-121: the entity read at line 36 is written back with startedAt, the
\* eventStarted message is set and the result returned.
StartEventStamp(p) ==
    /\ inv[p].op = "startEvent" /\ inv[p].pc = "prune" /\ inv[p].todo = {}
    /\ clock < MaxClock
    /\ clock' = clock + 1
    /\ LET upd == UpdateEntity(events, inv[p].eventId, [inv[p].evt EXCEPT !.startedAt = clock + 1]) IN
       /\ events' = upd.tbl
       /\ inv' = [inv EXCEPT ![p] =
                    IF upd.ok
                    THEN RespondWith(inv[p], 200, "event started", "eventStarted")
                    ELSE Respond(inv[p], 500, "ResourceNotFoundError")]
    /\ UNCHANGED <<runners, readyUsers, positions, accounts, prev>>

\* ------------------------------------------------------------ markUserReady
\* Lines 18-48: validation, Events lookup, status check.
MarkUserReadyGet(p, U) ==
    /\ inv[p] = Idle
    /\ \E e \in EventIds, u \in U :
          LET r == [Idle EXCEPT !.op = "markUserReady", !.eventId = e, !.userId = u] IN
          inv' = [inv EXCEPT ![p] =
                    IF u = Missing THEN Respond(r, 400, "missing eventId or userId")
                    ELSE IF ~events[e].exists THEN Respond(r, 404, "event not found")
                    ELSE IF events[e].status # "ready"
                         THEN Respond(r, 409, "event is not in ready state")
                    ELSE [r EXCEPT !.pc = "checkRunner", !.evt = events[e]]]
    /\ UNCHANGED <<store, prev>>

\* A mutant of IsRegistered: the RunnersInEvent lookup is not made.
IsRegisteredAny(tbl, e, u) == TRUE

\* Lines 51-53: runners_table.get_entity(partition_key = event_id, row_key =
\* user_id) finds a row.
IsRegistered(tbl, e, u) == <<e, u>> \in tbl

\* Lines 50-59: the caller must hold a row of RunnersInEvent.
MarkUserReadyCheck(p) ==
    /\ inv[p].op = "markUserReady" /\ inv[p].pc = "checkRunner"
    /\ inv' = [inv EXCEPT ![p] =
                 IF IsRegistered(runners, inv[p].eventId, inv[p].userId)
                 THEN [inv[p] EXCEPT !.pc = "create"]
                 ELSE Respond(inv[p], 403, "user is not registered for this event")]
    /\ UNCHANGED <<store, prev>>

\* A mutant of MarkExistsResponse: the existing ReadyMark is reported as a
\* conflict.
MarkExistsConflict(r) == Respond(r, 409, "user already marked as ready")

\* Lines 71-76: what the handler answers when create_entity raises
\* ResourceExistsError.
MarkExistsResponse(r) == Respond(r, 200, "user already marked as ready")

\* Lines 61-86: the conditional insert into ReadyUsers and the response.
MarkUserReadyCreate(p) ==
    /\ inv[p].op = "markUserReady" /\ inv[p].pc = "create"
    /\ LET row == <<inv[p].eventId, inv[p].userId>> IN
       IF row \in readyUsers
       THEN /\ inv' = [inv EXCEPT ![p] = MarkExistsResponse(inv[p])]
            /\ UNCHANGED readyUsers
       ELSE /\ readyUsers' = readyUsers \cup {row}
            /\ inv' = [inv EXCEPT ![p] = Respond(inv[p], 201, "user marked as ready")]
    /\ UNCHANGED <<events, runners, positions, clock, accounts, prev>>

\* --------------------------------------------------------------- leaveEvent
\* A mutant of LeaveAuthorized: the requester is not checked.
LeaveAuthorizedAny(requesting, leaving, evt) == TRUE

\* Lines 81-82: the requesting user is the leaving user or the event's trainerId.
LeaveAuthorized(requesting, leaving, evt) ==
    requesting = leaving \/ evt.trainerId = requesting

\* Lines 15-88: validation, the two Users lookups, the Events lookup and the
\* authorization check on the requestingUserId of the body.  require_auth puts
\* the payload of the token, that of one of T, into req.user, which main never
\* reads.
LeaveEventGet(p, U, T) ==
    /\ inv[p] = Idle
    /\ \E e \in EventIds, u \in U, q \in U, caller \in T :
          LET r == [Idle EXCEPT !.op = "leaveEvent", !.eventId = e, !.userId = u,
                                !.requester = q, !.caller = caller] IN
          inv' = [inv EXCEPT ![p] =
                    IF u = Missing \/ q = Missing
                    THEN Respond(r, 400, "missing leavingUserId, requestingUserId, or eventId")
                    ELSE IF q \notin Users THEN Respond(r, 404, "requesting user not found")
                    ELSE IF u \notin Users THEN Respond(r, 404, "leaving user not found")
                    ELSE IF ~events[e].exists THEN Respond(r, 404, "event not found")
                    ELSE IF ~LeaveAuthorized(q, u, events[e])
                         THEN Respond(r, 403, "unauthorized")
                    ELSE [r EXCEPT !.pc = "delete", !.evt = events[e]]]
    /\ UNCHANGED <<store, prev>>

\* A mutant of LeaveAbsentResponse: the missing row is reported as not found.
LeaveAbsentNotFound(r) == Respond(r, 404, "user was not registered for this event")

\* Lines 95-101: what the handler answers when delete_entity raises
\* ResourceNotFoundError.
LeaveAbsentResponse(r) == Respond(r, 200, "user was not registered for this event")

\* Lines 90-107: the delete of the row.  When the row is gone, delete_entity
\* raises ResourceNotFoundError (line 95) or passes over it in silence,
\* depending on the azure-data-tables release; both answers are 200.
LeaveEventDelete(p) ==
    /\ inv[p].op = "leaveEvent" /\ inv[p].pc = "delete"
    /\ LET row == <<inv[p].eventId, inv[p].userId>> IN
       /\ runners' = runners \ {row}
       /\ \/ inv' = [inv EXCEPT ![p] = Respond(inv[p], 200, "user left event")]
          \/ /\ row \notin runners
             /\ inv' = [inv EXCEPT ![p] = LeaveAbsentResponse(inv[p])]
    /\ UNCHANGED <<events, readyUsers, positions, clock, accounts, prev>>

\* -------------------------------------------------------------- deleteEvent
\* Lines 15-54: require_auth puts the token's payload into req.user, which main
\* never reads; the Events lookup.  ResourceNotFoundError: event_deleted = False
\* (line 59), and the handler goes on to the runners rows.
DeleteEventGet(p, U) ==
    /\ inv[p] = Idle
    /\ \E e \in EventIds, caller \in U \cap Users :
          LET r == [Idle EXCEPT !.op = "deleteEvent", !.eventId = e, !.requester = caller] IN
          inv' = [inv EXCEPT ![p] =
                    IF events[e].exists
                    THEN [r EXCEPT !.pc = "deleteEntity", !.evt = events[e]]
                    ELSE [r EXCEPT !.pc = "queryRunners"]]
    /\ UNCHANGED <<store, prev>>

\* Lines 55-59: the delete of the Event row.  When another deleteEvent removed
\* it since line 54, delete_entity raises ResourceNotFoundError (line 58) or
\* passes over it in silence, depending on the azure-data-tables release.
DeleteEventDelete(p) ==
    /\ inv[p].op = "deleteEvent" /\ inv[p].pc = "deleteEntity"
    /\ LET e == inv[p].eventId IN
       /\ events' = [events EXCEPT ![e] = NoEntity]
       /\ \/ inv' = [inv EXCEPT ![p].pc = "queryRunners", ![p].eventDeleted = TRUE]
          \/ /\ ~events[e].exists
             /\ inv' = [inv EXCEPT ![p].pc = "queryRunners"]
    /\ UNCHANGED <<runners, readyUsers, positions, clock, accounts, prev>>

\* Lines 64-66: the rows of RunnersInEvent with PartitionKey eq event_id.
CascadeFilter(tbl, e) == {u \in UserIds : <<e, u>> \in tbl}

\* Lines 61-67: the RunnersInEvent query of the event's partition.
DeleteEventQuery(p) ==
    /\ inv[p].op = "deleteEvent" /\ inv[p].pc = "queryRunners"
    /\ inv' = [inv EXCEPT ![p].pc = "cascade",
                          ![p].todo = CascadeFilter(runners, inv[p].eventId)]
    /\ UNCHANGED <<store, prev>>

\* Line 68: one delete of the cascade.  ResourceNotFoundError is not caught in
\* the loop: it reaches the handler's except (500).
DeleteEventCascade(p) ==
    /\ inv[p].op = "deleteEvent" /\ inv[p].pc = "cascade" /\ inv[p].todo # {}
    /\ \E u \in inv[p].todo :
          LET row == <<inv[p].eventId, u>> IN
          /\ runners' = runners \ {row}
          /\ \/ inv' = [inv EXCEPT ![p].todo = @ \ {u}]
             \/ /\ row \notin runners
                /\ inv' = [inv EXCEPT ![p] = Respond(inv[p], 500, "ResourceNotFoundError")]
    /\ UNCHANGED <<events, readyUsers, positions, clock, accounts, prev>>

\* Lines 70-87: the eventDeleted message is set whether or not the event was
\* found; 200 when it was deleted, 404 otherwise.
DeleteEventRespond(p) ==
    /\ inv[p].op = "deleteEvent" /\ inv[p].pc = "cascade" /\ inv[p].todo = {}
    /\ inv' = [inv EXCEPT ![p] =
                 IF inv[p].eventDeleted
                 THEN RespondWith(inv[p], 200, "event deleted", "eventDeleted")
                 ELSE RespondWith(inv[p], 404, "event not found", "eventDeleted")]
    /\ UNCHANGED <<store, prev>>

\* -------------------------------------------------- getEventRegisteredUsers
\* Lines 12-42: the Events lookup.
GetEventRegisteredUsersGet(p) ==
    /\ inv[p] = Idle
    /\ \E e \in EventIds :
          LET r == [Idle EXCEPT !.op = "getEventRegisteredUsers", !.eventId = e] IN
          inv' = [inv EXCEPT ![p] =
                    IF ~events[e].exists THEN Respond(r, 404, "event not found")
                    ELSE [r EXCEPT !.pc = "queryRunners", !.evt = events[e]]]
    /\ UNCHANGED <<store, prev>>

\* Lines 44-65: the RunnersInEvent query of the event's partition and the Users
\* lookup of every row; a row whose user is not in Users is left out (line 58).
\* The Users table is never written, so the lookups are taken with the query.
GetEventRegisteredUsersQuery(p) ==
    /\ inv[p].op = "getEventRegisteredUsers" /\ inv[p].pc = "queryRunners"
    /\ inv' = [inv EXCEPT ![p] =
                 Respond([inv[p] EXCEPT !.users = RunnersOf(inv[p].eventId) \cap Users],
                         200, "registered users")]
    /\ UNCHANGED <<store, prev>>

\* ----------------------------------------------------------------- register
\* Lines 36-66: the body, the validation and the hash of the password.
Register(p) ==
    /\ inv[p] = Idle
    /\ \E u \in Names \cup {Missing}, pw \in Passwords \cup {Missing}, salt \in Salts :
          LET r == [Idle EXCEPT !.op = "register", !.userId = u, !.password = pw] IN
          inv' = [inv EXCEPT ![p] =
                    IF u = Missing \/ pw = Missing
                    THEN Respond(r, 400, "Username and password are required")
                    ELSE IF Len(pw) < 8
                    THEN Respond(r, 400, "Password must be at least 8 characters long")
                    ELSE [r EXCEPT !.pc = "create", !.salt = salt]]
    /\ UNCHANGED <<store, prev>>

\* Line 71: the PartitionKey of the row register inserts.
RegisterPartition == "User"

\* Lines 68-115: the conditional insert of the row.  ResourceExistsError (a row
\* with this PartitionKey and RowKey is there): 409; another error: 500.
RegisterCreate(p) ==
    /\ inv[p].op = "register" /\ inv[p].pc = "create"
    /\ \/ IF \E row \in accounts : row[1] = RegisterPartition /\ row[2] = inv[p].userId
          THEN /\ inv' = [inv EXCEPT ![p] = Respond(inv[p], 409, "Username already exists")]
               /\ UNCHANGED accounts
          ELSE /\ accounts' = accounts \cup {<<RegisterPartition, inv[p].userId,
                                                HashPw(inv[p].password, inv[p].salt)>>}
               /\ inv' = [inv EXCEPT ![p] =
                            Respond(inv[p], 201, "User registered successfully")]
       \/ /\ inv' = [inv EXCEPT ![p] = Respond(inv[p], 500, "store error")]
          /\ UNCHANGED accounts
    /\ UNCHANGED <<events, runners, readyUsers, positions, clock, prev>>

\* -------------------------------------------------------------------- login
\* Lines 30-48: the body and the validation.
Login(p) ==
    /\ inv[p] = Idle
    /\ \E u \in Names \cup {Missing}, pw \in Passwords \cup {Missing} :
          LET r == [Idle EXCEPT !.op = "login", !.userId = u, !.password = pw] IN
          inv' = [inv EXCEPT ![p] =
                    IF u = Missing \/ pw = Missing
                    THEN Respond(r, 400, "Username and password are required")
                    ELSE [r EXCEPT !.pc = "getUser"]]
    /\ UNCHANGED <<store, prev>>

\* Line 53: the partition_key of the lookup.  The Table service compares keys
\* as they are written: "user" and "User" are two partitions.
LoginPartition == "user"

\* Lines 50-87: the lookup of the row, bcrypt.checkpw and the token.  When the
\* lookup finds no row or fails, the exception reaches the except of line 81:
\* 401, as for a wrong password.  issued is the username of the token's payload
\* (generate_token, lines 15-25).
LoginGet(p) ==
    /\ inv[p].op = "login" /\ inv[p].pc = "getUser"
    /\ LET found == {row \in accounts : row[1] = LoginPartition /\ row[2] = inv[p].userId} IN
       \/ /\ found = {}
          /\ inv' = [inv EXCEPT ![p] = Respond(inv[p], 401, "Invalid credentials")]
       \/ \E row \in found :
             inv' = [inv EXCEPT ![p] =
                       IF CheckPw(inv[p].password, row[3])
                       THEN Respond([inv[p] EXCEPT !.issued = inv[p].userId],
                                    200, "Login successful")
                       ELSE Respond(inv[p], 401, "Invalid credentials")]
       \/ inv' = [inv EXCEPT ![p] =
                    Respond([inv[p] EXCEPT !.faulted = TRUE], 401, "Invalid credentials")]
    /\ UNCHANGED <<store, prev>>

\* --------------------------------------------------------- getAllOpenEvents
\* A mutant of OpenFilter: the filter selects the ready events.
OpenFilterReady(tbl) == {e \in EventIds : tbl[e].exists /\ tbl[e].status = "ready"}

\* Line 33: PartitionKey eq 'Event' and status eq 'open'.
OpenFilter(tbl) == {e \in EventIds : tbl[e].exists /\ tbl[e].status = "open"}

\* Lines 11-38: the username of the token's payload (generate_token of login
\* always puts one) and the query of the open events, all of which are listed.
GetAllOpenEventsOpen(p, U) ==
    /\ inv[p] = Idle
    /\ \E caller \in U \cap Users :
          inv' = [inv EXCEPT ![p] =
                    [Idle EXCEPT !.op = "getAllOpenEvents", !.pc = "queryReady",
                                 !.requester = caller, !.listed = OpenFilter(events)]]
    /\ UNCHANGED <<store, prev>>

\* Lines 40-43: the query of the ready events; todo holds the eventId and the
\* trainerId of each entity the query returned.
GetAllOpenEventsReady(p) ==
    /\ inv[p].op = "getAllOpenEvents" /\ inv[p].pc = "queryReady"
    /\ inv' = [inv EXCEPT ![p].pc = "checkRunner",
                          ![p].todo = {<<e, events[e].trainerId>> :
                                          e \in {x \in EventIds : events[x].exists
                                                     /\ events[x].status = "ready"}}]
    /\ UNCHANGED <<store, prev>>

\* Lines 44-57: one ready event of the loop.  It is listed when the caller is
\* its trainerId or holds a row of RunnersInEvent; any error of the lookup
\* (line 54) counts as no row.
GetAllOpenEventsCheck(p) ==
    /\ inv[p].op = "getAllOpenEvents" /\ inv[p].pc = "checkRunner" /\ inv[p].todo # {}
    /\ \E t \in inv[p].todo, is_participant \in BOOLEAN :
          /\ is_participant => <<t[1], inv[p].requester>> \in runners
          /\ inv' = [inv EXCEPT ![p].todo = @ \ {t},
                                ![p].faulted = @ \/ (~is_participant
                                                    /\ <<t[1], inv[p].requester>> \in runners),
                                ![p].listed = IF t[2] = inv[p].requester \/ is_participant
                                              THEN @ \cup {t[1]} ELSE @]
    /\ UNCHANGED <<store, prev>>

\* Lines 59-64: the list of the open events and the ready events kept.
GetAllOpenEventsRespond(p) ==
    /\ inv[p].op = "getAllOpenEvents" /\ inv[p].pc = "checkRunner" /\ inv[p].todo = {}
    /\ inv' = [inv EXCEPT ![p] = Respond(inv[p], 200, "events")]
    /\ UNCHANGED <<store, prev>>

\* ----------------------------------------------------------- getUsersEvents
\* Lines 11-35: the userId of the request and the query of the events whose
\* trainerId it is.
GetUsersEventsTrainer(p, U) ==
    /\ inv[p] = Idle
    /\ \E u \in U :
          LET r == [Idle EXCEPT !.op = "getUsersEvents", !.userId = u] IN
          inv' = [inv EXCEPT ![p] =
                    IF u = Missing THEN Respond(r, 400, "missing userId")
                    ELSE [r EXCEPT !.pc = "queryRunners",
                                   !.listed = {e \in EventIds : events[e].exists
                                                 /\ events[e].trainerId = u}]]
    /\ UNCHANGED <<store, prev>>

\* A mutant of RunnerRows: the filter is on the PartitionKey.
RunnerRowsByPartition(tbl, u) == {row[1] : row \in {x \in tbl : x[1] = u}}

\* Line 38: the rows of RunnersInEvent with RowKey eq user_id, by their
\* PartitionKey (the eventId).
RunnerRows(tbl, u) == {row[1] : row \in {x \in tbl : x[2] = u}}

\* Line 38: the RunnersInEvent query.
GetUsersEventsQuery(p) ==
    /\ inv[p].op = "getUsersEvents" /\ inv[p].pc = "queryRunners"
    /\ inv' = [inv EXCEPT ![p].pc = "getEvent",
                          ![p].todo = RunnerRows(runners, inv[p].userId)]
    /\ UNCHANGED <<store, prev>>

\* Lines 39-44: the Events lookup of one row; the event is listed when the
\* lookup finds it, and any error of the lookup (line 43) leaves it out.
GetUsersEventsGet(p) ==
    /\ inv[p].op = "getUsersEvents" /\ inv[p].pc = "getEvent" /\ inv[p].todo # {}
    /\ \E e \in inv[p].todo, found \in BOOLEAN :
          /\ found => events[e].exists
          /\ inv' = [inv EXCEPT ![p].todo = @ \ {e},
                                ![p].faulted = @ \/ (~found /\ events[e].exists),
                                ![p].listed = IF found THEN @ \cup {e} ELSE @]
    /\ UNCHANGED <<store, prev>>

\* Lines 46-58: the list of the events found.
GetUsersEventsRespond(p) ==
    /\ inv[p].op = "getUsersEvents" /\ inv[p].pc = "getEvent" /\ inv[p].todo = {}
    /\ inv' = [inv EXCEPT ![p] = Respond(inv[p], 200, "events")]
    /\ UNCHANGED <<store, prev>>

\* ----------------------------------------------------- updateRunnerPosition
\* Lines 14-31: the fields of the body and the validation.  The body's sample
\* is what the client measured, one of S; no timestamp of the body is read.
UpdateRunnerPosition(p, S) ==
    /\ inv[p] = Idle
    /\ \E e \in EventIds, u \in UserIds \cup {Missing}, la \in Fields, lo \in Fields,
          s \in S :
          LET r == [Idle EXCEPT !.op = "updateRunnerPosition", !.eventId = e, !.userId = u,
                                !.lat = la, !.lon = lo, !.sample = s] IN
          inv' = [inv EXCEPT ![p] =
                    IF u = Missing \/ ~Truthy(la) \/ ~Truthy(lo)
                    THEN Respond(r, 400, "missing required fields")
                    ELSE [r EXCEPT !.pc = "create"]]
    /\ UNCHANGED <<store, prev>>

\* A mutant of AppendSample: the row is not inserted.
AppendSampleDropped(tbl, row) == tbl

\* Line 54: positions_tbl.create_entity(entity = position_entity).
AppendSample(tbl, row) == tbl \cup {row}

\* Lines 37-77: the row is stamped with datetime.utcnow() (the two readings of
\* lines 42 and 51 are taken as one reading of the clock) and inserted; then the
\* runnerPositionUpdate message is set and 200 returned.  No other table is
\* read.  T is the last time of the model.
UpdateRunnerPositionCreate(p, T) ==
    /\ inv[p].op = "updateRunnerPosition" /\ inv[p].pc = "create"
    /\ clock < T
    /\ clock' = clock + 1
    /\ positions' = AppendSample(positions,
                        <<inv[p].eventId, inv[p].userId, clock + 1, inv[p].sample>>)
    /\ inv' = [inv EXCEPT ![p] =
                 RespondWith(inv[p], 200, "position updated", "runnerPositionUpdate")]
    /\ UNCHANGED <<events, runners, readyUsers, accounts, prev>>

\* -------------------------------------------------- getEventRunnersPositions
\* Line 32: timedelta(minutes = 5), in the seconds the clock counts.
FreshnessWindow == 300

\* A mutant of InWindow: the comparison is turned round.
InWindowOlder(t, now, window) == t < now - window

\* Lines 32-33: the filter timestamp gt five_minutes_ago.  The timestamps are
\* isoformat() strings of UTC datetimes, which compare as the datetimes do.
InWindow(t, now, window) == t > now - window

\* Lines 33-35: the rows of the event's partition that pass the filter.
FreshRows(tbl, e, now, window) == {r \in tbl : r[1] = e /\ InWindow(r[3], now, window)}

\* A mutant of Newer: the comparison is turned round.
NewerOlder(t, cur) == t < cur

\* Line 43: timestamp > runner_positions[user_id]['timestamp'].
Newer(t, cur) == t > cur

\* Lines 38-53: the loop over the rows in the order the store returned them;
\* acc holds the row kept for each userId so far.
RECURSIVE LatestPositions(_, _)
LatestPositions(rows, acc) ==
    IF rows = <<>> THEN acc
    ELSE LET r == Head(rows)
             old == {x \in acc : x[2] = r[2]}
         IN LatestPositions(Tail(rows),
                IF old = {} \/ \E x \in old : Newer(r[3], x[3])
                THEN (acc \ old) \cup {r}
                ELSE acc)

\* The orders in which a query can return the rows of S.
Orders(S) ==
    {f \in [1..Cardinality(S) -> S] : \A i, j \in 1..Cardinality(S) : f[i] = f[j] => i = j}

\* Lines 14-33: the reading of the clock; window is the freshness window.
GetEventRunnersPositionsNow(p, W) ==
    /\ inv[p] = Idle
    /\ \E e \in EventIds, w \in W :
          inv' = [inv EXCEPT ![p] =
                    [Idle EXCEPT !.op = "getEventRunnersPositions", !.pc = "query",
                                 !.eventId = e, !.now = clock, !.window = w]]
    /\ UNCHANGED <<store, prev>>

\* Lines 35-59: the query, the reduction to one row for each userId, and the
\* response.
GetEventRunnersPositionsQuery(p) ==
    /\ inv[p].op = "getEventRunnersPositions" /\ inv[p].pc = "query"
    /\ \E rows \in Orders(FreshRows(positions, inv[p].eventId, inv[p].now, inv[p].window)) :
          inv' = [inv EXCEPT ![p] =
                    Respond([inv[p] EXCEPT !.latest = LatestPositions(rows, {})],
                            200, "positions")]
    /\ UNCHANGED <<store, prev>>

\* -------------------------------------------------------------- createEvent
\* Lines 12-24 and 86-92.  Line 24 builds the default of body.get("name", ...)
\* from event_id, a local of main that is assigned at line 42 only: the f-string
\* raises UnboundLocalError on every call, before the checks of lines 27-39, and
\* the handler's except answers 500.  Lines 25-84 are never reached.  main is
\* defined without @require_auth (line 8): the Authorization header is not read.
CreateEvent(p) ==
    /\ inv[p] = Idle
    /\ \E t \in Fields, la \in Fields, lo \in Fields, tok \in {"valid"} \cup BadTokens :
          LET r == [Idle EXCEPT !.op = "createEvent", !.ts = t, !.lat = la, !.lon = lo,
                                !.token = tok] IN
          inv' = [inv EXCEPT ![p] = Respond(r, 500, "UnboundLocalError")]
    /\ UNCHANGED <<store, prev>>

\* ------------------------------------------------------- faults and returns
\* The store call a running invocation is about to make raises an error other
\* than the ones the handler names: the handler's `except Exception` answers
\* 500.  In startEvent's prune loop every error of a delete is caught inside
\* the loop (line 84, see StartEventPrune); there the step is the end of the
\* invocation by the Functions host (time-out, restart of the worker), which
\* the client sees as a 5xx as well: the invocation ends between two deletes.
StoreFault(p) ==
    /\ inv[p].pc \notin {"idle", "done"}
    /\ inv' = [inv EXCEPT ![p] = Respond(inv[p], 500, "store error")]
    /\ UNCHANGED <<store, prev>>

\* The response has been delivered; the slot is free for the next request.
Return(p) ==
    /\ inv[p].pc = "done"
    /\ inv' = [inv EXCEPT ![p] = Idle]
    /\ UNCHANGED <<store, prev>>

\* The same for a client that issues its requests one after the other and
\* remembers the response, the tables it left behind, and the registrations
\* as they were before that request.
ReturnSeq(p) ==
    /\ inv[p].pc = "done"
    /\ inv' = [inv EXCEPT ![p] = Idle]
    /\ prev' = [op |-> inv[p].op, userId |-> inv[p].userId, code |-> inv[p].code,
                events |-> events, runners |-> runners, readyUsers |-> readyUsers,
                before |-> prev.runners, password |-> inv[p].password]
    /\ UNCHANGED store

\* ----------------------------------------------------------- specifications
\* The lifecycle handlers and the query of an event's registered users, their
\* requests carrying user ids of U, the deleteEvent requests tokens of D and
\* the startEvent and leaveEvent requests tokens of T.
Lifecycle(p, U, D, T) ==
    \/ JoinEventCheck(p, U) \/ JoinEventCreate(p)
    \/ SetEventReadyGet(p, U) \/ SetEventReadyUpdate(p)
    \/ MarkUserReadyGet(p, U) \/ MarkUserReadyCheck(p) \/ MarkUserReadyCreate(p)
    \/ LeaveEventGet(p, U, T) \/ LeaveEventDelete(p)
    \/ StartEventGet(p, U, T) \/ StartEventQueryReady(p) \/ StartEventQueryRunners(p)
    \/ StartEventPrune(p) \/ StartEventStamp(p)
    \/ DeleteEventGet(p, D) \/ DeleteEventDelete(p) \/ DeleteEventQuery(p)
    \/ DeleteEventCascade(p) \/ DeleteEventRespond(p)
    \/ GetEventRegisteredUsersGet(p) \/ GetEventRegisteredUsersQuery(p)
    \/ StoreFault(p)

\* Concurrent invocations of the lifecycle handlers, for the host and one
\* runner; the requests whose token the handler does not read carry the host's.
Next == \E p \in Procs : Lifecycle(p, RaceUsers, {"H"}, {"H"}) \/ Return(p)

Spec == Init /\ [][Next]_vars

\* One client that issues the lifecycle requests one after the other.
NextSeq == \E p \in {1} : Lifecycle(p, UserIds \cup {Missing}, Users, {"H"}) \/ ReturnSeq(p)

SeqSpec == Init /\ [][NextSeq]_vars

\* Every handler of the model, one request at a time.
NextApi ==
    \E p \in {1} : \/ Lifecycle(p, UserIds \cup {Missing}, Users, Users)
                   \/ UpdateRunnerPosition(p, {1}) \/ UpdateRunnerPositionCreate(p, MaxClock)
                   \/ CreateEvent(p) \/ RequireAuth(p) \/ Return(p)

ApiSpec == Init /\ [][NextApi]_vars

\* The position handlers, one request at a time, from an empty table.
NextPos ==
    \E p \in {1} : \/ UpdateRunnerPosition(p, Samples)
                   \/ UpdateRunnerPositionCreate(p, MaxClock)
                   \/ GetEventRunnersPositionsNow(p, {FreshnessWindow})
                   \/ GetEventRunnersPositionsQuery(p)
                   \/ StoreFault(p) \/ Return(p)

PosSpec == Init /\ [][NextPos]_vars

\* One client that issues the lifecycle requests and the queries of the events
\* and registrations one after the other.
NextView ==
    \E p \in {1} : \/ Lifecycle(p, Users, {"H"}, {"H"})
                   \/ GetAllOpenEventsOpen(p, Users) \/ GetAllOpenEventsReady(p)
                   \/ GetAllOpenEventsCheck(p) \/ GetAllOpenEventsRespond(p)
                   \/ GetUsersEventsTrainer(p, Users \cup {Missing}) \/ GetUsersEventsQuery(p)
                   \/ GetUsersEventsGet(p) \/ GetUsersEventsRespond(p)
                   \/ ReturnSeq(p)

ViewSpec == Init /\ [][NextView]_vars

\* One client that registers and logs in, one request after the other.
NextAuth ==
    \E p \in {1} : Register(p) \/ RegisterCreate(p) \/ Login(p) \/ LoginGet(p) \/ ReturnSeq(p)

AuthSpec == Init /\ [][NextAuth]_vars

\* The inputs of the query of the latest positions: the rows RunnerPositions
\* holds (timestamps in seconds), the time of the query and the freshness
\* window in seconds.
SampleTimes == {0, 10, 250, 300}
QueryTimes  == {310}
Windows     == {60, FreshnessWindow}
SampleRows  == EventIds \X {"A", "B"} \X SampleTimes \X Samples

\* Any table of at most MaxRows rows, queried at any of the times.
QueryInit ==
    /\ events = [e \in EventIds |->
                    [exists |-> TRUE, status |-> "open", trainerId |-> "H", startedAt |-> 0]]
    /\ runners = {}
    /\ readyUsers = {}
    /\ positions \in {S \in SUBSET SampleRows : Cardinality(S) <= MaxRows}
    /\ clock \in QueryTimes
    /\ accounts = {<<"User", u, HashPw("password1", 1)>> : u \in Users}
    /\ inv = [p \in Procs |-> Idle]
    /\ prev = [op |-> "none", userId |-> Missing, code |-> 0,
               events |-> [e \in EventIds |->
                    [exists |-> TRUE, status |-> "open", trainerId |-> "H", startedAt |-> 0]],
               runners |-> {}, readyUsers |-> {}, before |-> {}, password |-> Missing]

NextQuery ==
    \E p \in {1} : \/ GetEventRunnersPositionsNow(p, Windows)
                   \/ GetEventRunnersPositionsQuery(p)
                   \/ StoreFault(p) \/ Return(p)

QuerySpec == QueryInit /\ [][NextQuery]_vars

\* =================================================================== claims
Running(r) == r.pc \notin {"idle", "done"}
StoreFailed(r) == r.msg = "store error"
EventOpen(e) == events[e].exists /\ events[e].status = "open"
EventReady(e) == events[e].exists /\ events[e].status = "ready"
\* The tables the sequential client saw when it issued its current request.
RunnersBefore(e) == {u \in UserIds : <<e, u>> \in prev.runners}
ReadyBefore(e) == {u \in UserIds : <<e, u>> \in prev.readyUsers}

\* C1: startEvent by the host H of a ready event, with registered users R and
\* users M holding a ReadyMark, run with no other operation and no failed
\* delete, returns readyUsers = M \cup {H} and removedUsers = R \ (M \cup {H}),
\* and leaves exactly the registrations R \cap (M \cup {H}).
C1_StartPruning ==
    \A p \in Procs :
        LET r == inv[p]
            R == RunnersBefore(r.eventId)
            M == ReadyBefore(r.eventId)
            H == r.evt.trainerId
        IN (r.op = "startEvent" /\ r.pc = "done" /\ r.code = 200 /\ ~r.faulted) =>
              /\ r.userId = H
              /\ r.readyIds = M \cup {H}
              /\ r.removed = R \ (M \cup {H})
              /\ RunnersOf(r.eventId) = R \cap (M \cup {H})

\* C1 witness: a startEvent that returned 200 after removing a registered user
\* and keeping a registered user who holds a ReadyMark.
C1_Witness ==
    \E p \in Procs :
        /\ inv[p].op = "startEvent" /\ inv[p].pc = "done" /\ inv[p].code = 200
        /\ ~inv[p].faulted
        /\ inv[p].removed # {}
        /\ RunnersOf(inv[p].eventId) \ {inv[p].userId} # {}

\* C2: when startEvent returns 200, no registration of the event remains for
\* a user who is neither the host nor in the ready set that call read, also
\* when the store fails a delete of the prune loop.
C2_PruneComplete ==
    [][\A p \in Procs :
          (inv[p].op = "startEvent" /\ Running(inv[p])
              /\ inv'[p].pc = "done" /\ inv'[p].code = 200)
          => \A u \in UserIds :
                <<inv[p].eventId, u>> \in runners' => u \in inv'[p].readyIds]_vars

\* C3: joinEvent(e, u) of a known user called twice in sequence on an open
\* event: the call that finds no row answers 201 and inserts it, the call
\* that follows a 201 for the same user answers 200 "user already joined",
\* and the row of (e, u) is there exactly once.
C3_IdempotentJoin ==
    \A p \in Procs :
        LET r == inv[p]
            row == <<r.eventId, r.userId>>
        IN (r.op = "joinEvent" /\ r.pc = "done" /\ r.userId \in Users
              /\ EventOpen(r.eventId) /\ ~StoreFailed(r)) =>
              /\ row \in runners
              /\ Cardinality({x \in runners : x = row}) = 1
              /\ row \notin prev.runners => (r.code = 201 /\ r.msg = "user joined event")
              /\ (prev.op = "joinEvent" /\ prev.userId = r.userId /\ prev.code = 201)
                    => (r.code = 200 /\ r.msg = "user already joined"
                        /\ runners = prev.runners)

\* C3 witness: the second of two joinEvent calls in sequence has answered 200
\* after the first answered 201.
C3_Witness ==
    \E p \in Procs :
        /\ inv[p].op = "joinEvent" /\ inv[p].pc = "done" /\ inv[p].code = 200
        /\ prev.op = "joinEvent" /\ prev.userId = inv[p].userId /\ prev.code = 201
        /\ EventOpen(inv[p].eventId)

\* C4: a joinEvent that has read the event as open, whatever a concurrent
\* joinEvent for the same (eventId, userId) does, answers success (201 when
\* its insert creates the row, 200 when the row exists already) and the row
\* exists when it answers.
C4_ConcurrentJoin ==
    [][\A p \in Procs :
          LET row == <<inv[p].eventId, inv[p].userId>> IN
          (inv[p].op = "joinEvent" /\ inv[p].pc = "create"
              /\ inv'[p].pc = "done" /\ ~StoreFailed(inv'[p]))
          => /\ inv'[p].code \in {200, 201}
             /\ inv'[p].code = 201 <=> row \notin runners
             /\ row \in runners']_vars

\* C4 witness: two joinEvent calls for the same (eventId, userId) have both
\* read the event as open and neither has inserted the row yet.
C4_Witness ==
    \E p \in Procs, q \in Procs :
        /\ p # q
        /\ inv[p].op = "joinEvent" /\ inv[p].pc = "create"
        /\ inv[q].op = "joinEvent" /\ inv[q].pc = "create"
        /\ inv[q].eventId = inv[p].eventId /\ inv[q].userId = inv[p].userId
        /\ <<inv[p].eventId, inv[p].userId>> \notin runners

\* C5: no registration row is inserted at a moment when the stored status of
\* its event is ready.
C5_JoinOnlyWhileOpen ==
    [][\A e \in EventIds, u \in UserIds :
          (<<e, u>> \notin runners /\ <<e, u>> \in runners') => ~EventReady(e)]_vars

\* C6: every registration row refers to an event that exists, except while a
\* deleteEvent is still deleting the rows of the event it removed.
C6_NoOrphanRegistration ==
    \A row \in runners :
        \/ events[row[1]].exists
        \/ \E p \in Procs : inv[p].op = "deleteEvent" /\ Running(inv[p])

\* C7: a row is written to RunnersInEvent, ReadyUsers or RunnerPositions only
\* for an event that exists when the request is served.
C7_WritesCheckEvent ==
    [][\A e \in EventIds :
          (\/ \E u \in UserIds : <<e, u>> \in runners' \ runners
           \/ \E u \in UserIds : <<e, u>> \in readyUsers' \ readyUsers
           \/ \E row \in positions' \ positions : row[1] = e)
          => events[e].exists]_vars

\* C8: once the stored status of an event is ready it is never open again.
C8_StatusMonotonic ==
    [][\A e \in EventIds :
          (EventReady(e) /\ events'[e].exists) => events'[e].status = "ready"]_vars

\* C8 witness: a setEventReady that read the event as open has written its
\* entity back over an event that a startEvent had stamped in the meantime.
C8_Witness ==
    \E p \in Procs, q \in Procs :
        /\ inv[p].op = "setEventReady" /\ inv[p].pc = "done" /\ inv[p].code = 200
        /\ inv[p].evt.status = "open"
        /\ inv[q].op = "startEvent" /\ inv[q].pc = "done" /\ inv[q].code = 200
        /\ EventReady(inv[p].eventId) /\ events[inv[p].eventId].startedAt = 0

\* C9: once the Event row is deleted it never exists again.
C9_DeletedIsTerminal ==
    [][\A e \in EventIds : ~events[e].exists => ~events'[e].exists]_vars

\* C9 witness: a setEventReady or startEvent that read the event before a
\* deleteEvent removed it has tried to write it back and answered 500.
C9_Witness ==
    \E p \in Procs :
        /\ inv[p].op \in {"setEventReady", "startEvent"}
        /\ inv[p].pc = "done" /\ inv[p].code = 500
        /\ inv[p].msg = "ResourceNotFoundError"
        /\ inv[p].evt.exists
        /\ ~events[inv[p].eventId].exists

\* C10: createEvent with timestamp, latitude and longitude present answers 201.
C10_CreateSucceeds ==
    \A p \in Procs :
        (inv[p].op = "createEvent" /\ inv[p].pc = "done"
            /\ Truthy(inv[p].ts) /\ Truthy(inv[p].lat) /\ Truthy(inv[p].lon))
        => inv[p].code = 201

\* C11: setEventReady and startEvent on an existing event, open or ready, by a
\* requester who is not its host both answer 403 and change no table.
C11_HostOnly ==
    [][\A p \in Procs :
          LET r == inv'[p]
              who == IF r.op = "setEventReady" THEN r.requester ELSE r.userId
          IN (inv[p] = Idle /\ r.op \in {"setEventReady", "startEvent"}
                /\ events[r.eventId].exists
                /\ who # Missing /\ who # events[r.eventId].trainerId)
             => (r.pc = "done" /\ r.code = 403 /\ UNCHANGED store)]_vars

\* C12: markUserReady(e, u) called with no other operation under way: on a
\* ready event it answers 403 and inserts no ReadyMark when u holds no
\* registration of e, and answers success with exactly one ReadyMark of (e, u)
\* in the table when u holds one; on an open event it answers 409 and on an
\* absent event 404, inserting nothing.
C12_ReadyPrecondition ==
    \A p \in Procs :
        LET r == inv[p]
            row == <<r.eventId, r.userId>>
        IN (r.op = "markUserReady" /\ r.pc = "done" /\ r.userId # Missing
              /\ ~StoreFailed(r)) =>
              IF ~events[r.eventId].exists
              THEN r.code = 404 /\ readyUsers = prev.readyUsers
              ELSE IF EventOpen(r.eventId)
              THEN r.code = 409 /\ readyUsers = prev.readyUsers
              ELSE IF row \notin runners
              THEN r.code = 403 /\ readyUsers = prev.readyUsers
              ELSE /\ r.code \in {200, 201}
                   /\ Cardinality({x \in readyUsers : x = row}) = 1
                   /\ readyUsers = prev.readyUsers \cup {row}

\* C12 witness: a markUserReady on a ready event for a user without a
\* registration has answered 403.
C12_Witness ==
    \E p \in Procs :
        /\ inv[p].op = "markUserReady" /\ inv[p].pc = "done" /\ inv[p].code = 403
        /\ EventReady(inv[p].eventId)
        /\ <<inv[p].eventId, inv[p].userId>> \notin runners

\* C13: a ReadyMark of (e, u) is inserted only at a moment when event e exists
\* with status ready and the registration of (e, u) exists, whatever leaveEvent,
\* the prune loop of startEvent or deleteEvent do between the steps of
\* markUserReady.
C13_MarkOnlyRegistered ==
    [][\A e \in EventIds, u \in UserIds :
          (<<e, u>> \notin readyUsers /\ <<e, u>> \in readyUsers')
          => (EventReady(e) /\ <<e, u>> \in runners)]_vars

\* C14: a markUserReady of a registered user on a ready event that has passed
\* its checks, whatever another markUserReady for the same (eventId, userId)
\* does before or beside it, answers success (201 when its insert creates the
\* ReadyMark, 200 "user already marked as ready" when the ReadyMark exists)
\* and the ReadyMark is in the table exactly once when it answers.
C14_IdempotentMark ==
    [][\A p \in Procs :
          LET row == <<inv[p].eventId, inv[p].userId>> IN
          (inv[p].op = "markUserReady" /\ inv[p].pc = "create"
              /\ inv'[p].pc = "done" /\ ~StoreFailed(inv'[p]))
          => /\ inv'[p].code \in {200, 201}
             /\ inv'[p].code = 201 <=> row \notin readyUsers
             /\ inv'[p].code = 200 => inv'[p].msg = "user already marked as ready"
             /\ Cardinality({x \in readyUsers' : x = row}) = 1]_vars

\* C14 witness: two markUserReady calls for the same (eventId, userId) of a
\* registered user on a ready event have both passed their checks and neither
\* has inserted the ReadyMark yet.
C14_Witness ==
    \E p \in Procs, q \in Procs :
        /\ p # q
        /\ inv[p].op = "markUserReady" /\ inv[p].pc = "create"
        /\ inv[q].op = "markUserReady" /\ inv[q].pc = "create"
        /\ inv[q].eventId = inv[p].eventId /\ inv[q].userId = inv[p].userId
        /\ EventReady(inv[p].eventId)
        /\ <<inv[p].eventId, inv[p].userId>> \in runners
        /\ <<inv[p].eventId, inv[p].userId>> \notin readyUsers

\* C15: a startEvent of the host that was interrupted (500) at any point
\* before startedAt was stamped, after any number of deletes of its prune
\* loop, and is retried by the host with no other operation in between and no
\* failed delete: the retry answers 200, the registrations it leaves are those
\* an uninterrupted startEvent leaves, R \cap (M \cup {H}) for the registered
\* users R before the interrupted call and the users M holding a ReadyMark,
\* and startedAt is set.
C15_StartRetry ==
    \A p \in Procs :
        LET r == inv[p]
            R == {u \in UserIds : <<r.eventId, u>> \in prev.before}
            M == ReadyBefore(r.eventId)
            H == r.evt.trainerId
        IN (r.op = "startEvent" /\ r.pc = "done" /\ ~StoreFailed(r) /\ ~r.faulted
              /\ prev.op = "startEvent" /\ prev.code = 500 /\ prev.userId = r.userId) =>
              /\ r.code = 200
              /\ RunnersOf(r.eventId) = R \cap (M \cup {H})
              /\ events[r.eventId].startedAt = clock
              /\ events[r.eventId].startedAt > 0

\* C15 witness: the retry has answered 200 and removed a registration, after
\* an interrupted startEvent that had removed another one.
C15_Witness ==
    \E p \in Procs :
        /\ inv[p].op = "startEvent" /\ inv[p].pc = "done" /\ inv[p].code = 200
        /\ ~inv[p].faulted
        /\ prev.op = "startEvent" /\ prev.code = 500 /\ prev.userId = inv[p].userId
        /\ prev.runners # prev.before
        /\ inv[p].removed # {}

\* C16: a startEvent that answers 200 right after a startEvent that answered
\* 200 leaves RunnersInEvent, ReadyUsers and the Event entity, startedAt
\* included, as the first call left them.
C16_StartTwice ==
    \A p \in Procs :
        (inv[p].op = "startEvent" /\ inv[p].pc = "done" /\ inv[p].code = 200
            /\ prev.op = "startEvent" /\ prev.code = 200)
        => (runners = prev.runners /\ readyUsers = prev.readyUsers
            /\ events = prev.events)

\* C17: a startEvent that answers 404, 409 or 403 does so at its checks, before
\* any store write: it has deleted no registration, has not stamped startedAt
\* and has set no eventStarted message.
C17_StartRefusedFrame ==
    [][\A p \in Procs :
          (inv'[p].op = "startEvent" /\ inv'[p].pc = "done" /\ inv[p].pc # "done"
              /\ inv'[p].code \in {403, 404, 409})
          => /\ inv[p] = Idle
             /\ runners' = runners /\ events' = events
             /\ inv'[p].removed = {}
             /\ inv'[p].bcast = "none"]_vars

\* C17 witness: a startEvent of a user who is not the host has answered 403 on
\* a ready event that has a registration it would have pruned.
C17_Witness ==
    \E p \in Procs :
        /\ inv[p].op = "startEvent" /\ inv[p].pc = "done" /\ inv[p].code = 403
        /\ EventReady(inv[p].eventId)
        /\ RunnersOf(inv[p].eventId) \ (ReadyOf(inv[p].eventId) \cup {"H"}) # {}
        /\ events[inv[p].eventId].startedAt = 0

\* C18: leaveEvent called with no other operation under way deletes the
\* registration of leavingUserId only when the requester is the leaving user
\* or the host of the event; for another requester it answers 403 and for an
\* unknown event, requesting user or leaving user 404, and RunnersInEvent is
\* as it was.
C18_LeaveAuthorization ==
    \A p \in Procs :
        LET r == inv[p]
            row == <<r.eventId, r.userId>>
            known == events[r.eventId].exists /\ r.requester \in Users /\ r.userId \in Users
            allowed == r.requester = r.userId \/ r.requester = events[r.eventId].trainerId
        IN (r.op = "leaveEvent" /\ r.pc = "done" /\ r.userId # Missing
              /\ r.requester # Missing /\ ~StoreFailed(r)) =>
              /\ ~known => (r.code = 404 /\ runners = prev.runners)
              /\ (known /\ ~allowed) => (r.code = 403 /\ runners = prev.runners)
              /\ runners # prev.runners =>
                    (known /\ allowed /\ runners = prev.runners \ {row})

\* C18 witness: a leaveEvent for a registered user, requested by a known user
\* who is neither that user nor the host, has answered 403.
C18_Witness ==
    \E p \in Procs :
        /\ inv[p].op = "leaveEvent" /\ inv[p].pc = "done" /\ inv[p].code = 403
        /\ inv[p].requester \in Users
        /\ <<inv[p].eventId, inv[p].userId>> \in runners

\* C19: an authorized leaveEvent answers 200 and leaves no registration of the
\* leaving user; when there was none (never joined, left before, removed by a
\* concurrent leaveEvent or prune) it changes no table, so a second leaveEvent
\* leaves the state the first one left.
C19_IdempotentLeave ==
    [][\A p \in Procs :
          LET row == <<inv[p].eventId, inv[p].userId>> IN
          (inv[p].op = "leaveEvent" /\ inv[p].pc = "delete"
              /\ inv'[p].pc = "done" /\ ~StoreFailed(inv'[p]))
          => /\ inv'[p].code = 200
             /\ runners' = runners \ {row}
             /\ row \notin runners => UNCHANGED store]_vars

\* C19 witness: two leaveEvent calls for the same user have both answered 200,
\* one of them for a registration that was not there.
C19_Witness ==
    \E p \in Procs, q \in Procs :
        /\ p # q
        /\ inv[p].op = "leaveEvent" /\ inv[p].pc = "done" /\ inv[p].code = 200
        /\ inv[p].msg = "user was not registered for this event"
        /\ inv[q].op = "leaveEvent" /\ inv[q].pc = "done" /\ inv[q].code = 200
        /\ inv[q].msg = "user left event"
        /\ inv[q].eventId = inv[p].eventId /\ inv[q].userId = inv[p].userId

\* C20: once a deleteEvent(e) has answered 200, whatever registrations the
\* event had, the Event row is absent and RunnersInEvent holds no row of
\* partition e; a getEventRegisteredUsers(e) issued when the Event row is absent
\* answers 404.
C20_CascadeDelete ==
    [][\A p \in Procs :
          /\ (inv'[p].op = "deleteEvent" /\ inv'[p].pc = "done" /\ inv'[p].code = 200)
                => /\ ~events'[inv'[p].eventId].exists
                   /\ \A u \in UserIds : <<inv'[p].eventId, u>> \notin runners'
          /\ (inv[p] = Idle /\ inv'[p].op = "getEventRegisteredUsers"
                /\ ~events[inv'[p].eventId].exists)
                => (inv'[p].pc = "done" /\ inv'[p].code = 404)]_vars

\* C21: a deleteEvent that answers 404 has found no Event row; it has deleted
\* no registration and has set no eventDeleted message.
C21_DeleteNotFoundFrame ==
    \A p \in Procs :
        (inv[p].op = "deleteEvent" /\ inv[p].pc = "done" /\ inv[p].code = 404)
        => /\ ~prev.events[inv[p].eventId].exists
           /\ runners = prev.runners
           /\ inv[p].bcast = "none"

\* C22: a deleteEvent whose authenticated caller is not the host of the event
\* it found deletes neither the Event row nor a registration.
C22_DeleteByHostOnly ==
    [][\A p \in Procs :
          (inv[p].op = "deleteEvent" /\ inv'[p].op = "deleteEvent" /\ inv[p] # inv'[p]
              /\ inv[p].evt.exists /\ inv[p].requester # inv[p].evt.trainerId)
          => (events' = events /\ runners' = runners)]_vars

\* C23: an updateRunnerPosition that passed validation ends in one of two
\* ways: it inserts exactly one row, that of its sample, and then sets exactly
\* one runnerPositionUpdate message; or its insert fails, and it inserts no row
\* and sets no message.  No step of it reads who is subscribed.
C23_AppendThenBroadcast ==
    [][\A p \in Procs :
          (inv[p].op = "updateRunnerPosition" /\ inv[p].pc = "create"
              /\ inv'[p].pc = "done")
          => IF inv'[p].code = 200
             THEN /\ \E row \in positions' :
                        /\ row \notin positions
                        /\ positions' = positions \cup {row}
                        /\ row[1] = inv[p].eventId /\ row[2] = inv[p].userId
                        /\ row[4] = inv[p].sample
                  /\ inv'[p].bcast = "runnerPositionUpdate"
             ELSE /\ positions' = positions
                  /\ inv'[p].bcast = "none"]_vars

\* C23 witness: an updateRunnerPosition has inserted the row of its sample
\* and set the message.
C23_Witness ==
    \E p \in Procs :
        /\ inv[p].op = "updateRunnerPosition" /\ inv[p].pc = "done" /\ inv[p].code = 200
        /\ inv[p].bcast = "runnerPositionUpdate"
        /\ <<inv[p].eventId, inv[p].userId, clock, inv[p].sample>> \in positions

\* C24: updateRunnerPosition answers 400 exactly when eventId, userId, latitude
\* or longitude is absent from the body; a body that has all four is accepted
\* whatever their values, latitude 0 and longitude 0 included.
C24_RequiredFields ==
    \A p \in Procs :
        LET r == inv[p] IN
        r.op = "updateRunnerPosition" =>
            ((r.pc = "done" /\ r.code = 400)
                <=> (r.userId = Missing \/ ~r.lat.present \/ ~r.lon.present))

\* The (userId, timestamp) pairs of a set of rows.
Stamps(rows) == {<<r[2], r[3]>> : r \in rows}
QueryDone(r) == r.op = "getEventRunnersPositions" /\ r.pc = "done" /\ r.code = 200

\* C25: whatever rows the table holds and whatever the order the store returns
\* them in, getEventRunnersPositions returns at most one entry for a userId,
\* and the entry of a user is a stored sample of that user whose timestamp is
\* the maximum of those of the user's samples inside the freshness window.
C25_LatestPerUser ==
    \A p \in Procs :
        LET r == inv[p] IN
        QueryDone(r) =>
            /\ \A x \in r.latest, y \in r.latest : x[2] = y[2] => x = y
            /\ \A x \in r.latest :
                  /\ x \in positions /\ x[1] = r.eventId
                  /\ \A y \in positions :
                        (y[1] = r.eventId /\ y[2] = x[2] /\ y[3] >= r.now - r.window)
                        => y[3] <= x[3]

\* C25 witness: the query has returned one entry for a user who has two
\* samples with different timestamps inside the window.
C25_Witness ==
    \E p \in Procs :
        /\ QueryDone(inv[p])
        /\ \E x \in inv[p].latest, y \in positions :
              /\ y[2] = x[2] /\ y[3] < x[3]
              /\ y[3] > inv[p].now - inv[p].window

\* C26: the entry getEventRunnersPositions returns for a runner is the sample
\* the runner's client took last, whatever the order in which the samples
\* reached updateRunnerPosition.
C26_PayloadTimeDecides ==
    \A p \in Procs :
        LET r == inv[p] IN
        QueryDone(r) =>
            \A x \in r.latest, y \in positions :
                (y[1] = r.eventId /\ y[2] = x[2] /\ y[3] > r.now - r.window)
                => y[4] <= x[4]

\* C27: getEventRunnersPositions considers exactly the samples with
\* timestamp >= now - window, a timestamp equal to now - window included: the
\* users it returns are those who have such a sample.
C27_WindowBoundary ==
    \A p \in Procs :
        LET r == inv[p] IN
        QueryDone(r) =>
            {x[2] : x \in r.latest}
                = {y[2] : y \in {z \in positions :
                                    z[1] = r.eventId /\ z[3] >= r.now - r.window}}

C29_EndToEnd ==
    [][\A p \in Procs :
          LET r == inv'[p]
              e == r.eventId
          IN (inv[p].pc # "done" /\ r.pc = "done" /\ ~StoreFailed(r)) =>
                /\ (r.op = "createEvent" /\ Truthy(r.ts) /\ Truthy(r.lat) /\ Truthy(r.lon))
                      => r.code \in {200, 201}
                /\ (r.op = "joinEvent" /\ r.userId \in Users /\ EventOpen(e))
                      => r.code \in {200, 201}
                /\ (r.op = "setEventReady" /\ events[e].exists
                      /\ r.requester = events[e].trainerId)
                      => (r.code = 200 /\ events'[e].exists /\ events'[e].status = "ready")
                /\ (r.op = "markUserReady" /\ EventReady(e) /\ <<e, r.userId>> \in runners)
                      => r.code \in {200, 201}
                /\ (r.op = "startEvent" /\ r.code = 200 /\ ~r.faulted)
                      => /\ r.readyIds = ReadyOf(e) \cup {r.userId}
                         /\ r.removed \cap r.readyIds = {}
                         /\ RunnersOf(e) \subseteq (r.removed \cup r.readyIds)
                         /\ events'[e].startedAt > 0]_vars

\* C30: joinEvent called with no other operation under way answers 404 when
\* the Event row is absent (never there or deleted) or the user is no row of
\* Users, and 409 when the event's status is not open; in each case it inserts
\* no registration and sets no message.
C30_JoinRefused ==
    \A p \in Procs :
        LET r == inv[p]
            e == r.eventId
            unknown == ~events[e].exists \/ r.userId \notin Users
        IN (r.op = "joinEvent" /\ r.pc = "done" /\ r.userId # Missing) =>
              /\ unknown => r.code = 404
              /\ (~unknown /\ events[e].status # "open") => r.code = 409
              /\ (unknown \/ events[e].status # "open")
                    => (runners = prev.runners /\ r.bcast = "none")

\* C30 witness: a joinEvent of a known user has answered 404 for an event
\* that a deleteEvent removed.
C30_Witness ==
    \E p \in Procs :
        /\ inv[p].op = "joinEvent" /\ inv[p].pc = "done" /\ inv[p].code = 404
        /\ inv[p].userId \in Users
        /\ prev.op = "deleteEvent" /\ prev.code = 200

\* The operations the interface lists as requiring authentication, among the
\* handlers of the model.
Protected == Decorated \cup {"createEvent"}

\* C31: a request to a protected operation without a valid bearer token is
\* answered 401 or 403 at once, changes no table and sets no message.
C31_AuthRequired ==
    [][\A p \in Procs :
          (inv[p] = Idle /\ inv'[p].op \in Protected /\ inv'[p].token # "valid")
          => /\ inv'[p].pc = "done"
             /\ inv'[p].code \in {401, 403}
             /\ inv'[p].bcast = "none"
             /\ UNCHANGED store]_vars

C33_RegistrationVisible ==
    [][\A e \in EventIds, u \in UserIds :
          /\ (<<e, u>> \in runners /\ <<e, u>> \notin runners')
                => \E p \in Procs :
                      \/ inv[p].op = "leaveEvent" /\ inv[p].userId = u
                      \/ inv[p].op \in {"startEvent", "deleteEvent"}
          /\ \A p \in Procs :
                LET r == inv'[p] IN
                (inv[p].pc # "done" /\ r.pc = "done" /\ ~StoreFailed(r) /\ ~r.faulted
                    /\ <<e, u>> \in runners /\ events[e].exists)
                => /\ (r.op = "getEventRegisteredUsers" /\ r.eventId = e)
                         => (r.code = 200 /\ u \in r.users)
                   /\ (r.op = "getUsersEvents" /\ r.userId = u)
                         => (r.code = 200 /\ e \in r.listed)]_vars

\* C33 witness: after a joinEvent that answered 201 for a user who is not the
\* host, getUsersEvents of that user has returned the event.
C33_Witness ==
    \E p \in Procs :
        /\ inv[p].op = "getUsersEvents" /\ inv[p].pc = "done" /\ inv[p].code = 200
        /\ prev.op = "joinEvent" /\ prev.code = 201 /\ prev.userId = inv[p].userId
        /\ \E e \in inv[p].listed :
              events[e].trainerId # inv[p].userId /\ <<e, inv[p].userId>> \in runners

\* C34: right after a register(username, password) that answered 201, with no
\* failed store call, a login with that username and password answers 200
\* with a token for the username, a login with that username and another
\* password answers 401, and a register for that username answers 409 and
\* leaves the Users table as it was.
C34_RegisterThenLogin ==
    [][\A p \in Procs :
          LET r == inv'[p] IN
          (inv[p].pc \notin {"idle", "done"} /\ r.pc = "done" /\ ~StoreFailed(r) /\ ~r.faulted
              /\ prev.op = "register" /\ prev.code = 201 /\ r.userId = prev.userId)
          => /\ (r.op = "login" /\ r.password = prev.password)
                   => (r.code = 200 /\ r.issued = r.userId)
             /\ (r.op = "login" /\ r.password # prev.password) => r.code = 401
             /\ r.op = "register" => (r.code = 409 /\ accounts' = accounts)]_vars

\* C35: the prune loop of startEvent deletes no registration whose user holds
\* a ReadyMark at the moment of the delete, whatever a markUserReady does
\* between the steps of startEvent.
C35_PruneSparesReady ==
    [][\A p \in Procs, u \in UserIds :
          (inv[p].op = "startEvent" /\ u \in inv'[p].removed \ inv[p].removed
              /\ <<inv[p].eventId, u>> \in runners)
          => <<inv[p].eventId, u>> \notin readyUsers]_vars

\* C36: an event that has a startedAt keeps one for as long as its row exists,
\* whatever a setEventReady that read the entity earlier writes back.
C36_StartedAtKept ==
    [][\A e \in EventIds :
          (events[e].exists /\ events[e].startedAt > 0 /\ events'[e].exists)
          => events'[e].startedAt > 0]_vars

\* C37: startEvent removes registrations only when the user of its token is
\* the host of the event, and leaveEvent deletes the registration of u only
\* when the user of its token is u or the host, whatever userId and
\* requestingUserId the body carries.
C37_TokenIdentityDecides ==
    [][\A p \in Procs, u \in UserIds :
          LET r == inv[p]
              row == <<r.eventId, u>>
          IN /\ (r.op = "startEvent" /\ u \in inv'[p].removed \ r.removed /\ row \in runners)
                   => r.caller = r.evt.trainerId
             /\ (r.op = "leaveEvent" /\ r.pc = "delete" /\ r.userId = u
                    /\ row \in runners /\ row \notin runners')
                   => r.caller \in {u, r.evt.trainerId}]_vars

\* C38: once a startEvent of event e has answered 200, with no failed delete
\* in its prune loop, every registration of e is the host's or that of a user
\* holding a ReadyMark of e, whatever a joinEvent that read the event as open
\* before setEventReady does afterwards.
C38_OnlyReadyAfterStart ==
    \A p \in Procs :
        LET r == inv[p] IN
        (r.op = "startEvent" /\ r.pc = "done" /\ r.code = 200 /\ ~r.faulted)
        => \A u \in RunnersOf(r.eventId) :
              u = r.evt.trainerId \/ u \in ReadyOf(r.eventId)

\* C39: every user in the readyUsers of a startEvent that answered 200, the
\* host aside, holds a registration of the event when startEvent returns; a
\* user who marked ready and then left is not among them.
C39_ReadyUsersRegistered ==
    \A p \in Procs :
        LET r == inv[p] IN
        (r.op = "startEvent" /\ r.pc = "done" /\ r.code = 200)
        => \A u \in r.readyIds \ {r.evt.trainerId} : <<r.eventId, u>> \in runners

\* C40: a lifecycle message is set only by the step whose store write
\* succeeded: eventStatusChanged by the setEventReady that stored status ready,
\* eventStarted by the startEvent that stored startedAt, updateEvent by the
\* joinEvent that inserted a registration that was not there; a setEventReady,
\* startEvent or joinEvent that answers an error, or 200 for a user who had
\* joined already, sets no message.
C40_BroadcastAfterWrite ==
    [][\A p \in Procs :
          LET r == inv'[p]
              e == r.eventId
              row == <<e, r.userId>>
          IN (inv[p].pc # "done" /\ r.pc = "done"
                /\ r.op \in {"setEventReady", "startEvent", "joinEvent"})
             => /\ r.bcast = "eventStatusChanged"
                   <=> (r.op = "setEventReady" /\ r.code = 200 /\ events[e].exists
                        /\ events'[e] = [inv[p].evt EXCEPT !.status = "ready"])
                /\ r.bcast = "eventStarted"
                   <=> (r.op = "startEvent" /\ r.code = 200 /\ events[e].exists
                        /\ events'[e] = [inv[p].evt EXCEPT !.startedAt = clock']
                        /\ clock' > clock)
                /\ r.bcast = "updateEvent"
                   <=> (r.op = "joinEvent" /\ r.code = 201
                        /\ row \notin runners /\ row \in runners')
                /\ r.bcast \in {"none", "eventStatusChanged", "eventStarted", "updateEvent"}
                /\ r.code \notin {200, 201} => r.bcast = "none"]_vars

\* C40 witness: a startEvent whose write of startedAt failed, the event having
\* been deleted since it was read, has answered 500 without a message.
C40_Witness ==
    \E p \in Procs :
        /\ inv[p].op = "startEvent" /\ inv[p].pc = "done" /\ inv[p].code = 500
        /\ inv[p].msg = "ResourceNotFoundError"
        /\ inv[p].bcast = "none"
        /\ ~events[inv[p].eventId].exists

====
